---- MODULE Spec2Model ----
(***************************************************************************)
(* A model of demy's keyframe timeline (src/src/lib.rs): Timeline owns     *)
(* Tracks by name, a Track owns a Vec<Node>, and a Node is a               *)
(* (time, value, interp) triple.  Vec indices are 0-based as in the        *)
(* source; the sequence position of index i is i + 1.                      *)
(***************************************************************************)
EXTENDS Integers, Sequences, FiniteSets, TLC

VARIABLES tracks, last, panicked, iters

vars == <<tracks, last, panicked, iters>>

(* ---------------------------- bounds ----------------------------------- *)

\* Node times given to the operations are 0..MaxTime.
MaxTime == 3

\* add_node is not called when it would leave more than MaxNodes nodes.
MaxNodes == 3

Times == 0..MaxTime

\* Track names given to the Timeline operations.
Names == {"camera"}

\* Node values.
Values == {0, 1}

\* The f64 values of the model are whole numbers and std::f64::NAN, which
\* stands for the values that are not finite.
NAN == -1

\* The (value, interp) payloads of the nodes given to the operations.  The
\* mutating operations copy a node's value and interp without reading them.
Payloads == {<<0, "None">>, <<1, "Linear">>}

(* ---------------------------- Node ------------------------------------- *)

InterpType == {"None", "Linear"}

NodeNew(time, value, interp) == [time |-> time, value |-> value, interp |-> interp]

get_time(node) == node.time

get_value(node) == node.value

get_interpolator(node) == node.interp

NodeInputs == {NodeNew(t, p[1], p[2]) : t \in Times, p \in Payloads}

(* ---------------------------- Option ----------------------------------- *)

\* Option<usize>
NoneIdx == [some |-> FALSE, val |-> 0]

SomeIdx(i) == [some |-> TRUE, val |-> i]

\* Option<&'static str> returned by the mutating calls: None is success.
RetNone == "None"

ErrZeroTime == "Inserting a node with at_time=0 is not allowed."

ErrDuplicate == "A node already exists at this time point."

ErrNotFound == "Could not find node at the given time."

\* The call did not return: an index out of bounds aborted the thread.
RetPanic == "panic"

IsErr(ret) == ret \in {ErrZeroTime, ErrDuplicate, ErrNotFound}

(* ---------------------------- Vec -------------------------------------- *)

\* Vec::insert(index, node), index <= len
VecInsert(nodes, index, node) ==
    SubSeq(nodes, 1, index) \o <<node>> \o SubSeq(nodes, index + 1, Len(nodes))

\* Vec::remove(index), index < len
VecRemove(nodes, index) ==
    SubSeq(nodes, 1, index) \o SubSeq(nodes, index + 2, Len(nodes))

\* nodes[index] = node
VecSet(nodes, index, node) == [nodes EXCEPT ![index + 1] = node]

(* ---------------------------- Track ------------------------------------ *)

\* Mutant of internal_add_node: the node is pushed whatever the index.
internal_add_node_push(nodes, index, node) == Append(nodes, node)

internal_add_node(nodes, index, node) ==
    IF index >= Len(nodes)
    THEN Append(nodes, node)
    ELSE VecInsert(nodes, index, node)

\* Mutant of TrackNew: the time-0 node is made with the Linear interpolation.
TrackNew_linear(name) ==
    [nodes |-> <<NodeNew(0, 0, "Linear")>>, name |-> name]

TrackNew(name) ==
    [nodes |-> internal_add_node(<<>>, 0, NodeNew(0, 0, "None")), name |-> name]

\* The for loop of add_node from index i on, prev_time as the loop holds it.
\* dup: the loop returned the duplicate error; otherwise insert_index.
RECURSIVE AddScan(_, _, _, _)
AddScan(nodes, i, prev_time, add_time) ==
    IF i >= Len(nodes)
    THEN [dup |-> FALSE, insert_index |-> NoneIdx]
    ELSE LET cur_time == get_time(nodes[i + 1])
         IN  IF cur_time = add_time
             THEN [dup |-> TRUE, insert_index |-> NoneIdx]
             ELSE IF cur_time > add_time /\ add_time > prev_time
                  THEN [dup |-> FALSE, insert_index |-> SomeIdx(i)]
                  ELSE AddScan(nodes, i + 1, cur_time, add_time)

\* Mutant of add_node: the time-0 check is missing.
add_node_nozero(nodes, node) ==
    IF Len(nodes) = 0
    THEN [nodes |-> nodes, ret |-> RetPanic]
    ELSE LET scan == AddScan(nodes, 1, get_time(nodes[1]), get_time(node))
             index == IF scan.insert_index.some
                      THEN scan.insert_index.val
                      ELSE Len(nodes)
         IN  IF scan.dup
             THEN [nodes |-> nodes, ret |-> ErrDuplicate]
             ELSE [nodes |-> Append(SubSeq(nodes, 1, index), node)
                               \o SubSeq(nodes, index + 1, Len(nodes)),
                   ret |-> RetNone]

add_node(nodes, node) ==
    IF get_time(node) = 0
    THEN [nodes |-> nodes, ret |-> ErrZeroTime]
    ELSE IF Len(nodes) = 0
         THEN [nodes |-> nodes, ret |-> RetPanic]
         ELSE LET scan == AddScan(nodes, 1, get_time(nodes[1]), get_time(node))
                  index == IF scan.insert_index.some
                           THEN scan.insert_index.val
                           ELSE Len(nodes)
              IN  IF scan.dup
                  THEN [nodes |-> nodes, ret |-> ErrDuplicate]
                  ELSE [nodes |-> internal_add_node(nodes, index, node),
                        ret |-> RetNone]

\* (index, Option<&Node>): the first node with the time, or (0, None)
RECURSIVE GetNodeScan(_, _, _)
GetNodeScan(nodes, i, time) ==
    IF i >= Len(nodes)
    THEN [index |-> 0, some |-> FALSE]
    ELSE IF get_time(nodes[i + 1]) = time
         THEN [index |-> i, some |-> TRUE]
         ELSE GetNodeScan(nodes, i + 1, time)

internal_get_node_at(nodes, time) == GetNodeScan(nodes, 0, time)

internal_get_node_index_at(nodes, time) ==
    LET r == internal_get_node_at(nodes, time)
    IN  IF r.some THEN SomeIdx(r.index) ELSE NoneIdx

\* Mutant of del_node_at: the last node is removed, not the one found.
del_node_at_pop(nodes, time) ==
    LET found == internal_get_node_index_at(nodes, time)
    IN  IF found.some
        THEN [nodes |-> SubSeq(nodes, 1, Len(nodes) - 1), ret |-> RetNone]
        ELSE [nodes |-> nodes, ret |-> ErrNotFound]

del_node_at(nodes, time) ==
    LET found == internal_get_node_index_at(nodes, time)
    IN  IF found.some
        THEN [nodes |-> VecRemove(nodes, found.val), ret |-> RetNone]
        ELSE [nodes |-> nodes, ret |-> ErrNotFound]

\* Mutant of update_node_at: only the last node is overwritten in place, a
\* node that keeps its time is deleted and added again.
update_node_at_lastonly(nodes, time, node) ==
    LET found == internal_get_node_index_at(nodes, time)
        index == found.val
    IN  IF ~found.some
        THEN [nodes |-> nodes, ret |-> ErrNotFound]
        ELSE IF index + 1 = Len(nodes)
             THEN [nodes |-> [nodes EXCEPT ![index + 1] = node], ret |-> RetNone]
             ELSE LET deleted == SubSeq(nodes, 1, index)
                                    \o SubSeq(nodes, index + 2, Len(nodes))
                      added == add_node(deleted, node)
                  IN  [nodes |-> added.nodes, ret |-> RetNone]

\* Mutant of update_node_at: only a node that keeps its time is overwritten in
\* place, the last node is deleted and added again like any other.
update_node_at_sametime(nodes, time, node) ==
    LET found == internal_get_node_index_at(nodes, time)
        index == found.val
    IN  IF ~found.some
        THEN [nodes |-> nodes, ret |-> ErrNotFound]
        ELSE IF get_time(nodes[index + 1]) = get_time(node)
             THEN [nodes |-> VecSet(nodes, index, node), ret |-> RetNone]
             ELSE LET deleted == del_node_at(nodes, time)
                      added == add_node(deleted.nodes, node)
                  IN  [nodes |-> added.nodes,
                       ret |-> IF added.ret = RetPanic THEN RetPanic ELSE RetNone]

update_node_at(nodes, time, node) ==
    LET found == internal_get_node_index_at(nodes, time)
        index == found.val
    IN  IF ~found.some
        THEN [nodes |-> nodes, ret |-> ErrNotFound]
        ELSE IF index + 1 = Len(nodes)
                \/ get_time(nodes[index + 1]) = get_time(node)
             THEN [nodes |-> VecSet(nodes, index, node), ret |-> RetNone]
             ELSE LET deleted == del_node_at(nodes, time)
                      added == add_node(deleted.nodes, node)
                  IN  [nodes |-> added.nodes,
                       ret |-> IF added.ret = RetPanic THEN RetPanic ELSE RetNone]

get_node_at(nodes, time) ==
    LET r == internal_get_node_at(nodes, time)
    IN  IF r.some
        THEN [some |-> TRUE, node |-> nodes[r.index + 1]]
        ELSE [some |-> FALSE, node |-> NodeNew(0, 0, "None")]

(* ---------------------------- f64 -------------------------------------- *)

\* An f64 is modelled by the exact fraction num / den; den = 0 is a value
\* that is not finite (0.0 / 0.0 is NaN).  Rounding is not modelled.
F64(n) == IF n = NAN THEN [num |-> 0, den |-> 0] ELSE [num |-> n, den |-> 1]

F64Add(a, b) == [num |-> a.num * b.den + b.num * a.den, den |-> a.den * b.den]

F64Sub(a, b) == [num |-> a.num * b.den - b.num * a.den, den |-> a.den * b.den]

F64Mul(a, b) == [num |-> a.num * b.num, den |-> a.den * b.den]

F64Div(a, b) == [num |-> a.num * b.den, den |-> a.den * b.num]

is_finite(a) == a.den # 0

\* a == b on f64: false when either is NaN
F64Eq(a, b) == is_finite(a) /\ is_finite(b) /\ a.num * b.den = b.num * a.den

(* ---------------------------- interpolation ---------------------------- *)

\* Mutant of interp_none: the value of the node the span ends at.
interp_none_to(from, to, t) == F64(get_value(to))

interp_none(from, to, t) == F64(get_value(from))

interp_linear(from, to, t) ==
    F64Add(F64Mul(F64(get_value(from)), F64Sub(F64(1), t)),
           F64Mul(t, F64(get_value(to))))

\* (InterpType::to_func())(from, to, t)
to_func(interp, from, to, t) ==
    IF interp = "None" THEN interp_none(from, to, t) ELSE interp_linear(from, to, t)

\* The for loop of internal_get_nodes_between from index i on.
RECURSIVE BetweenScan(_, _, _, _)
BetweenScan(nodes, i, prev_node, time) ==
    IF i >= Len(nodes)
    THEN [left |-> prev_node, some |-> FALSE, right |-> prev_node]
    ELSE LET node == nodes[i + 1]
         IN  IF time >= get_time(prev_node) /\ get_time(node) >= time
             THEN [left |-> prev_node, some |-> TRUE, right |-> node]
             ELSE BetweenScan(nodes, i + 1, node, time)

\* Mutant of internal_get_nodes_between: past the last node it gives nodes[0].
internal_get_nodes_between_first(nodes, time) ==
    LET r == BetweenScan(nodes, 1, nodes[1], time)
    IN  IF r.some THEN r ELSE [left |-> nodes[1], some |-> FALSE, right |-> nodes[1]]

\* (left, Option<right>); called on a track that has nodes[0]
internal_get_nodes_between(nodes, time) == BetweenScan(nodes, 1, nodes[1], time)

\* Mutant of get_value_at: the interpolation of the left node is used.
get_value_at_left(nodes, time) ==
    IF Len(nodes) = 0
    THEN [ret |-> RetPanic, val |-> F64(0)]
    ELSE LET between == internal_get_nodes_between(nodes, time)
             left == between.left
             right == between.right
             t == F64Div(F64(time - get_time(left)),
                         F64(get_time(right) - get_time(left)))
         IN  IF ~between.some
             THEN [ret |-> RetNone, val |-> F64(get_value(left))]
             ELSE [ret |-> RetNone,
                   val |-> to_func(get_interpolator(left), left, right, t)]

get_value_at(nodes, time) ==
    IF Len(nodes) = 0
    THEN [ret |-> RetPanic, val |-> F64(0)]
    ELSE LET between == internal_get_nodes_between(nodes, time)
             left == between.left
             right == between.right
             t == F64Div(F64Sub(F64(time), F64(get_time(left))),
                         F64Sub(F64(get_time(right)), F64(get_time(left))))
         IN  IF ~between.some
             THEN [ret |-> RetNone, val |-> F64(get_value(left))]
             ELSE [ret |-> RetNone,
                   val |-> to_func(get_interpolator(right), left, right, t)]

(* ---------------------------- Timeline --------------------------------- *)

\* Timeline::new(): HashMap::new()
TimelineNew == [n \in {} |-> TrackNew(n)]

contains_key(tl, name) == name \in DOMAIN tl

\* Mutant of try_add_track: the map is emptied before a new name is inserted.
try_add_track_clear(tl, name) ==
    IF contains_key(tl, name)
    THEN tl
    ELSE [n \in {name} |-> TrackNew(name)]

\* Mutant of try_add_track: the name is inserted even when it is present, so
\* a new Track takes the place of the stored one.
try_add_track_replace(tl, name) ==
    [n \in DOMAIN tl \cup {name} |-> IF n = name THEN TrackNew(name) ELSE tl[n]]

try_add_track(tl, name) ==
    IF contains_key(tl, name)
    THEN tl
    ELSE [n \in DOMAIN tl \cup {name} |-> IF n = name THEN TrackNew(name) ELSE tl[n]]

\* Mutant of del_track: the map is cleared when the name is found.
del_track_clear(tl, name) ==
    IF contains_key(tl, name)
    THEN [tl |-> [n \in {} |-> tl[n]], ret |-> TRUE]
    ELSE [tl |-> tl, ret |-> FALSE]

del_track(tl, name) ==
    IF contains_key(tl, name)
    THEN [tl |-> [n \in DOMAIN tl \ {name} |-> tl[n]], ret |-> TRUE]
    ELSE [tl |-> tl, ret |-> FALSE]

(* ---------------------------- save / load ------------------------------ *)

\* The JSON text is modelled by its sequence of tokens.

\* a JSON string
Quote(str) == "\"" \o str \o "\""

\* a u32 as JSON number
u32_to_string(n) == ToString(n)

\* an f64 as JSON: a finite whole value is written with ".0", a value that is
\* not finite as null
f64_to_string(v) == IF v = NAN THEN "null" ELSE ToString(v) \o ".0"

\* the texts of a sequence, separated by ","
RECURSIVE JoinComma(_)
JoinComma(texts) ==
    IF Len(texts) = 0
    THEN <<>>
    ELSE IF Len(texts) = 1
         THEN texts[1]
         ELSE texts[1] \o <<",">> \o JoinComma(Tail(texts))

\* Serialize of Node: the fields in the order of the struct
save_node(node) ==
    <<"{", Quote("time"), ":", u32_to_string(node.time), ",",
      Quote("value"), ":", f64_to_string(node.value), ",",
      Quote("interp"), ":", Quote(node.interp), "}">>

\* Serialize of Track
save_track(track) ==
    <<"{", Quote("nodes"), ":", "[">>
        \o JoinComma([i \in 1..Len(track.nodes) |-> save_node(track.nodes[i])])
        \o <<"]", ",", Quote("name"), ":", Quote(track.name), "}">>

\* Timeline::save; order is the order in which the HashMap gives its entries
save(tl, order) ==
    <<"{", Quote("tracks"), ":", "{">>
        \o JoinComma([i \in 1..Len(order) |->
                        <<Quote(order[i]), ":">> \o save_track(tl[order[i]])])
        \o <<"}", "}">>

\* the token at pos, "" after the end of the text
Tok(doc, pos) == IF pos \in 1..Len(doc) THEN doc[pos] ELSE ""

Expect(doc, pos, toks) == \A i \in 1..Len(toks) : Tok(doc, pos + i - 1) = toks[i]

ParseFail == [ok |-> FALSE, pos |-> 0, val |-> <<>>]

\* The numbers and strings a token is the text of; the numbers of the model
\* are 0..MaxTime and Values, the names those given to the Timeline.
parse_u32(tok) == {n \in 0..MaxTime : u32_to_string(n) = tok}

parse_f64(tok) == {v \in Values : f64_to_string(v) = tok \/ ToString(v) = tok}

parse_interp(tok) == {i \in {"None", "Linear"} : Quote(i) = tok}

parse_name(tok) == {n \in {"camera", "camera.x", "camera.y"} : Quote(n) = tok}

\* Deserialize of Node, the fields in the order save writes them
load_node(doc, pos) ==
    IF /\ Expect(doc, pos, <<"{", Quote("time"), ":">>)
       /\ parse_u32(Tok(doc, pos + 3)) # {}
       /\ Expect(doc, pos + 4, <<",", Quote("value"), ":">>)
       /\ parse_f64(Tok(doc, pos + 7)) # {}
       /\ Expect(doc, pos + 8, <<",", Quote("interp"), ":">>)
       /\ parse_interp(Tok(doc, pos + 11)) # {}
       /\ Tok(doc, pos + 12) = "}"
    THEN [ok |-> TRUE, pos |-> pos + 13,
          val |-> [time |-> CHOOSE n \in parse_u32(Tok(doc, pos + 3)) : TRUE,
                   value |-> CHOOSE v \in parse_f64(Tok(doc, pos + 7)) : TRUE,
                   interp |-> CHOOSE i \in parse_interp(Tok(doc, pos + 11)) : TRUE]]
    ELSE ParseFail

\* the elements of a JSON array from pos on, up to its "]"
RECURSIVE LoadNodesLoop(_, _, _)
LoadNodesLoop(doc, pos, acc) ==
    LET n == load_node(doc, pos)
    IN  IF ~n.ok
        THEN ParseFail
        ELSE IF Tok(doc, n.pos) = ","
             THEN LoadNodesLoop(doc, n.pos + 1, Append(acc, n.val))
             ELSE IF Tok(doc, n.pos) = "]"
                  THEN [ok |-> TRUE, pos |-> n.pos + 1, val |-> Append(acc, n.val)]
                  ELSE ParseFail

\* Deserialize of Vec<Node>: pos is after the "["
load_nodes(doc, pos) ==
    IF Tok(doc, pos) = "]"
    THEN [ok |-> TRUE, pos |-> pos + 1, val |-> <<>>]
    ELSE LoadNodesLoop(doc, pos, <<>>)

\* Deserialize of Track: no check of the nodes it reads
load_track(doc, pos) ==
    IF ~Expect(doc, pos, <<"{", Quote("nodes"), ":", "[">>)
    THEN ParseFail
    ELSE LET ns == load_nodes(doc, pos + 4)
         IN  IF /\ ns.ok
                /\ Expect(doc, ns.pos, <<",", Quote("name"), ":">>)
                /\ parse_name(Tok(doc, ns.pos + 3)) # {}
                /\ Tok(doc, ns.pos + 4) = "}"
             THEN [ok |-> TRUE, pos |-> ns.pos + 5,
                   val |-> [nodes |-> ns.val,
                            name |-> CHOOSE n \in parse_name(Tok(doc, ns.pos + 3)) : TRUE]]
             ELSE ParseFail

\* the entries of the "tracks" object from pos on, up to its "}"; an entry
\* read later takes the place of one of the same key (HashMap::insert)
RECURSIVE LoadTracksLoop(_, _, _)
LoadTracksLoop(doc, pos, acc) ==
    IF parse_name(Tok(doc, pos)) = {} \/ Tok(doc, pos + 1) # ":"
    THEN ParseFail
    ELSE LET key == CHOOSE n \in parse_name(Tok(doc, pos)) : TRUE
             tr == load_track(doc, pos + 2)
             map == [n \in DOMAIN acc \cup {key} |-> IF n = key THEN tr.val ELSE acc[n]]
         IN  IF ~tr.ok
             THEN ParseFail
             ELSE IF Tok(doc, tr.pos) = ","
                  THEN LoadTracksLoop(doc, tr.pos + 1, map)
                  ELSE IF Tok(doc, tr.pos) = "}"
                       THEN [ok |-> TRUE, pos |-> tr.pos + 1, val |-> map]
                       ELSE ParseFail

\* Deserialize of HashMap<String, Track>
load_tracks(doc, pos) ==
    IF Tok(doc, pos) # "{"
    THEN ParseFail
    ELSE IF Tok(doc, pos + 1) = "}"
         THEN [ok |-> TRUE, pos |-> pos + 2, val |-> TimelineNew]
         ELSE LoadTracksLoop(doc, pos + 1, TimelineNew)

\* Timeline::load
load(doc) ==
    IF ~Expect(doc, 1, <<"{", Quote("tracks"), ":">>)
    THEN ParseFail
    ELSE LET tr == load_tracks(doc, 4)
         IN  IF tr.ok /\ Tok(doc, tr.pos) = "}" /\ tr.pos = Len(doc)
             THEN tr
             ELSE ParseFail

ErrSave == "Failed to save timeline."

ErrLoad == "Failed to load timeline."

(* ---------------------------- ffi -------------------------------------- *)

\* A pointer argument of an ffi function is the null pointer or points to a
\* live object.  Each function below gives the outcomes of a call by what its
\* pointer arguments are: the value returned, or FfiFault when the process is
\* stopped by the access.
Null == "null"

Valid == "valid"

Ptrs == {Null, Valid}

FfiFault == "fault"

BoolRets == {"true", "false"}

PtrRets == {"null", "handle"}

VoidRets == {"void"}

\* (*p) of a null p is undefined behaviour: the access stops the process, or
\* the call goes on and returns some value of its type.
NullDeref(rets) == {FfiFault} \cup rets

demy_tl_free(tl) == VoidRets

demy_tl_track_get(tl, name) ==
    IF name = Null \/ tl = Null THEN NullDeref(PtrRets) ELSE {"handle"}

demy_tl_track_del(tl, name) ==
    IF name = Null \/ tl = Null THEN NullDeref(BoolRets) ELSE BoolRets

demy_tr_add_node(tr) == IF tr = Null THEN NullDeref(BoolRets) ELSE BoolRets

demy_tr_del_node(tr) == IF tr = Null THEN NullDeref(BoolRets) ELSE BoolRets

demy_tr_get_node(tr) == IF tr = Null THEN NullDeref(PtrRets) ELSE PtrRets

\* the track pointer is stored in the new iterator, not read
demy_tr_iter_begin(tr) == {"handle"}

demy_tr_iter_end(tr) == IF tr = Null THEN NullDeref({"handle"}) ELSE {"handle"}

\* only the pointer to the iterator pointer is tested
demy_tr_iter_next(ptr_to_iter, iter) ==
    IF ptr_to_iter = Null
    THEN VoidRets
    ELSE IF iter = Null THEN NullDeref(VoidRets) ELSE VoidRets

demy_tr_iter_free(iter) == VoidRets

demy_tr_iter_are_eq(a, b) == IF a = Null \/ b = Null THEN {"false"} ELSE BoolRets

demy_tr_iter_get(iter) == IF iter = Null THEN NullDeref(PtrRets) ELSE {"handle"}

demy_node_update_at(tr, node) ==
    IF tr = Null \/ node = Null THEN NullDeref(BoolRets) ELSE BoolRets

demy_node_clone(node) == IF node = Null THEN NullDeref({"handle"}) ELSE {"handle"}

demy_node_free(node) == VoidRets

\* tl is tested, path is not
demy_tl_save(tl, path) ==
    IF tl = Null
    THEN {"false"}
    ELSE IF path = Null THEN NullDeref(BoolRets) ELSE BoolRets

demy_tl_load(path) == IF path = Null THEN {"null"} ELSE PtrRets

demy_node_set_interp(node) == VoidRets

demy_node_get_interp(node) == IF node = Null THEN {"None"} ELSE {"None", "Linear"}

demy_node_set_value(node) == VoidRets

demy_node_get_value(node) == IF node = Null THEN {"0"} ELSE {"0", "1"}

demy_node_set_time(node) == VoidRets

demy_node_get_time(node) == IF node = Null THEN {"0"} ELSE {"0", "1"}

\* the ffi functions that take one pointer, and those that take two
Ffi1 == {"demy_tl_free", "demy_tr_add_node", "demy_tr_del_node", "demy_tr_get_node",
         "demy_tr_iter_begin", "demy_tr_iter_end", "demy_tr_iter_free",
         "demy_tr_iter_get", "demy_node_clone", "demy_node_free", "demy_tl_load",
         "demy_node_set_interp", "demy_node_get_interp", "demy_node_set_value",
         "demy_node_get_value", "demy_node_set_time", "demy_node_get_time"}

Ffi2 == {"demy_tl_track_get", "demy_tl_track_del", "demy_tr_iter_next",
         "demy_tr_iter_are_eq", "demy_node_update_at", "demy_tl_save"}

ffi(fn, a, b) ==
    CASE fn = "demy_tl_free" -> demy_tl_free(a)
      [] fn = "demy_tl_track_get" -> demy_tl_track_get(a, b)
      [] fn = "demy_tl_track_del" -> demy_tl_track_del(a, b)
      [] fn = "demy_tr_add_node" -> demy_tr_add_node(a)
      [] fn = "demy_tr_del_node" -> demy_tr_del_node(a)
      [] fn = "demy_tr_get_node" -> demy_tr_get_node(a)
      [] fn = "demy_tr_iter_begin" -> demy_tr_iter_begin(a)
      [] fn = "demy_tr_iter_end" -> demy_tr_iter_end(a)
      [] fn = "demy_tr_iter_next" -> demy_tr_iter_next(a, b)
      [] fn = "demy_tr_iter_free" -> demy_tr_iter_free(a)
      [] fn = "demy_tr_iter_are_eq" -> demy_tr_iter_are_eq(a, b)
      [] fn = "demy_tr_iter_get" -> demy_tr_iter_get(a)
      [] fn = "demy_node_update_at" -> demy_node_update_at(a, b)
      [] fn = "demy_node_clone" -> demy_node_clone(a)
      [] fn = "demy_node_free" -> demy_node_free(a)
      [] fn = "demy_tl_save" -> demy_tl_save(a, b)
      [] fn = "demy_tl_load" -> demy_tl_load(a)
      [] fn = "demy_node_set_interp" -> demy_node_set_interp(a)
      [] fn = "demy_node_get_interp" -> demy_node_get_interp(a)
      [] fn = "demy_node_set_value" -> demy_node_set_value(a)
      [] fn = "demy_node_get_value" -> demy_node_get_value(a)
      [] fn = "demy_node_set_time" -> demy_node_set_time(a)
      [] fn = "demy_node_get_time" -> demy_node_get_time(a)

(* ---------------------------- ffi cursors ------------------------------ *)

\* A CAPINodeIterator is its track (the name of the Track it points to) and
\* its index; from and nexts are history: the function that made it and the
\* number of demy_tr_iter_next calls made on it.  iters is the heap of the
\* cursors, a cursor pointer is a position in it and 0 is the null pointer.

\* No more than MaxIters cursors are made.
MaxIters == 2

\* demy_tr_iter_next is not called on a cursor whose index is MaxOverrun
\* beyond the node count.
MaxOverrun == 1

\* demy_tr_iter_begin on a live track
tr_iter_begin(tr) == [track |-> tr, index |-> 0, from |-> "begin", nexts |-> 0]

\* Mutant of tr_iter_end: the cursor is on the last node, not behind it.
tr_iter_end_last(tl, tr) ==
    [track |-> tr, index |-> Len(tl[tr].nodes) - 1, from |-> "end", nexts |-> 0]

\* demy_tr_iter_end on a live track
tr_iter_end(tl, tr) ==
    [track |-> tr, index |-> Len(tl[tr].nodes), from |-> "end", nexts |-> 0]

\* demy_tr_iter_next on a pointer to a handle that holds a live cursor: null
\* tells that the handle is set to null; the index is advanced in any case
tr_iter_next(tl, iter) ==
    [null |-> iter.index >= Len(tl[iter.track].nodes),
     iter |-> [iter EXCEPT !.index = @ + 1, !.nexts = @ + 1]]

\* demy_tr_iter_are_eq on two live cursors
tr_iter_are_eq(a, b) == a.index = b.index

\* demy_tr_iter_get on a live cursor: nodes[index] is bounds-checked
tr_iter_get(tl, iter) ==
    IF iter.index < Len(tl[iter.track].nodes)
    THEN [ret |-> RetNone, node |-> tl[iter.track].nodes[iter.index + 1]]
    ELSE [ret |-> RetPanic, node |-> NodeNew(0, 0, "None")]

(* ---------------------------- timeline.rs ------------------------------ *)

\* src/src/timeline.rs is the module of the binary (main.rs: mod timeline).
\* Its Track has the same Vec<Node>; the operations that differ from those of
\* lib.rs are modelled here, under the names of the source with timeline_
\* before those lib.rs has too.

\* Timeline::new_track
timeline_new_track(tl, name) ==
    IF contains_key(tl, name)
    THEN [tl |-> tl, some |-> FALSE]
    ELSE [tl |-> [n \in DOMAIN tl \cup {name} |->
                    IF n = name THEN TrackNew(name) ELSE tl[n]],
          some |-> TRUE]

\* Track::add_node(at_time, value, interp): the scan of lib.rs
timeline_add_node(nodes, at_time, value, interp) ==
    add_node(nodes, NodeNew(at_time, value, interp))

destroy_node_at(nodes, time) ==
    LET found == internal_get_node_index_at(nodes, time)
    IN  IF found.some
        THEN [nodes |-> VecRemove(nodes, found.val), ret |-> RetNone]
        ELSE [nodes |-> nodes, ret |-> ErrNotFound]

\* Track::update_node_at: always nodes[index] = *node
timeline_update_node_at(nodes, time, node) ==
    LET found == internal_get_node_index_at(nodes, time)
    IN  IF found.some
        THEN [nodes |-> VecSet(nodes, found.val, node), ret |-> RetNone]
        ELSE [nodes |-> nodes, ret |-> ErrNotFound]

\* Result<Option<Node>, &'static str>: Ok, with the Option in some and node
RetOk == "Ok"

\* Track::view_next_node(node): Ok(None) only if index >= len, which no index
\* found has; nodes[index + 1] is bounds-checked
view_next_node(nodes, node) ==
    LET found == internal_get_node_index_at(nodes, get_time(node))
    IN  IF found.some
        THEN IF found.val >= Len(nodes)
             THEN [ret |-> RetOk, some |-> FALSE, node |-> node]
             ELSE IF found.val + 1 < Len(nodes)
                  THEN [ret |-> RetOk, some |-> TRUE,
                        node |-> nodes[found.val + 2]]
                  ELSE [ret |-> RetPanic, some |-> FALSE, node |-> node]
        ELSE [ret |-> ErrNotFound, some |-> FALSE, node |-> node]

\* Track::view_previous_node(node)
view_previous_node(nodes, node) ==
    LET found == internal_get_node_index_at(nodes, get_time(node))
    IN  IF found.some
        THEN IF 0 >= found.val
             THEN [ret |-> RetOk, some |-> FALSE, node |-> node]
             ELSE [ret |-> RetOk, some |-> TRUE, node |-> nodes[found.val]]
        ELSE [ret |-> ErrNotFound, some |-> FALSE, node |-> node]

\* The for loop of timeline.rs internal_get_nodes_between from index i on:
\* the pair found is returned as (node, Some(prev_node)).
RECURSIVE TimelineBetweenScan(_, _, _, _)
TimelineBetweenScan(nodes, i, prev_node, time) ==
    IF i >= Len(nodes)
    THEN [left |-> prev_node, some |-> FALSE, right |-> prev_node]
    ELSE LET node == nodes[i + 1]
         IN  IF time >= get_time(prev_node) /\ get_time(node) >= time
             THEN [left |-> node, some |-> TRUE, right |-> prev_node]
             ELSE TimelineBetweenScan(nodes, i + 1, node, time)

\* (first, Option<second>), which view_value binds to (left, right)
timeline_internal_get_nodes_between(nodes, time) ==
    TimelineBetweenScan(nodes, 1, nodes[1], time)

\* A number hi * 2^32 + lo, for the u32 that a subtraction wrapped to and for
\* what is computed from it.
Wide(hi, lo) == [hi |-> hi, lo |-> lo]

\* a - b on u32 where overflow is not checked: 2^32 + (a - b) when a < b
u32_wrapping_sub(a, b) == IF a >= b THEN Wide(0, a - b) ELSE Wide(1, a - b)

WideAdd(a, b) == Wide(a.hi + b.hi, a.lo + b.lo)

WideSub(a, b) == Wide(a.hi - b.hi, a.lo - b.lo)

\* k * a for a whole number k
WideScale(k, a) == Wide(k * a.hi, k * a.lo)

WideIsZero(a) == a.hi = 0 /\ a.lo = 0

\* a <= b for two u32
WideLe(a, b) == a.hi < b.hi \/ (a.hi = b.hi /\ a.lo <= b.lo)

\* The f64 num / den of two Wide; den zero is a value that is not finite.
WideF64(num, den) == [num |-> num, den |-> den]

\* Track::view_value.  overflow_checks: the build panics on a u32 subtraction
\* that overflows (debug profile) or lets it wrap (release profile).
view_value(nodes, time, overflow_checks) ==
    IF Len(nodes) = 0
    THEN [ret |-> RetPanic, t |-> WideF64(Wide(0, 0), Wide(0, 1)),
          val |-> WideF64(Wide(0, 0), Wide(0, 1))]
    ELSE LET between == timeline_internal_get_nodes_between(nodes, time)
             left == between.left
             right == between.right
             overflow == time < get_time(left) \/ get_time(right) < get_time(left)
             n == u32_wrapping_sub(time, get_time(left))
             d == u32_wrapping_sub(get_time(right), get_time(left))
             t == WideF64(n, d)
         IN  IF ~between.some
             THEN [ret |-> RetNone, t |-> WideF64(Wide(0, 0), Wide(0, 1)),
                   val |-> WideF64(Wide(0, get_value(left)), Wide(0, 1))]
             ELSE IF overflow /\ overflow_checks
                  THEN [ret |-> RetPanic, t |-> t,
                        val |-> WideF64(Wide(0, 0), Wide(0, 1))]
                  ELSE [ret |-> RetNone, t |-> t,
                        val |-> IF get_interpolator(left) = "None"
                                THEN WideF64(Wide(0, get_value(left)), Wide(0, 1))
                                ELSE WideF64(
                                       WideAdd(WideScale(get_value(left), WideSub(d, n)),
                                               WideScale(get_value(right), n)),
                                       d)]

(* ---------------------------- the calls -------------------------------- *)

NoNode == NodeNew(0, 0, "None")

\* What a call that gives no node, value or text leaves in `out`.
NoOut ==
    [some |-> FALSE, node |-> NoNode, val |-> F64(0), doc |-> <<>>, ptr |-> 0,
     t |-> WideF64(Wide(0, 0), Wide(0, 1)), wval |-> WideF64(Wide(0, 0), Wide(0, 1))]

\* No call is in progress: the caller holds no result and no borrow.
Idle ==
    [op |-> "idle", name |-> "", time |-> 0, node |-> NoNode, ret |-> RetNone,
     out |-> NoOut, pre |-> TimelineNew]

\* A call that has just run: its operation, arguments and result, and the
\* timeline as it was when the call was made.
Call(op, name, time, node, ret) ==
    [op |-> op, name |-> name, time |-> time, node |-> node, ret |-> ret,
     out |-> NoOut, pre |-> tracks]

\* A call whose result is a node, a value or a text.
CallOut(op, name, time, ret, out) ==
    [op |-> op, name |-> name, time |-> time, node |-> NoNode, ret |-> ret,
     out |-> out, pre |-> tracks]

SetNodes(name, nodes) == [tracks EXCEPT ![name].nodes = nodes]

Init ==
    /\ tracks = TimelineNew
    /\ last = Idle
    /\ panicked = FALSE
    /\ iters = <<>>

GetTrack(name) ==
    /\ ~panicked
    /\ UNCHANGED iters
    /\ last = Idle
    /\ tracks' = try_add_track(tracks, name)
    /\ last' = Call("get_track", name, 0, NoNode, RetNone)
    /\ UNCHANGED panicked

GetTrackMut(name) ==
    /\ ~panicked
    /\ UNCHANGED iters
    /\ last = Idle
    /\ tracks' = try_add_track(tracks, name)
    /\ last' = Call("get_track_mut", name, 0, NoNode, RetNone)
    /\ UNCHANGED panicked

DelTrack(name) ==
    /\ ~panicked
    /\ UNCHANGED iters
    /\ last = Idle
    /\ LET r == del_track(tracks, name)
       IN  /\ tracks' = r.tl
           /\ last' = Call("del_track", name, 0, NoNode,
                           IF r.ret THEN "true" ELSE "false")
    /\ UNCHANGED panicked

\* track.add_node(&node) on the track get_track_mut(name) gave
AddNodeCall(name, node) ==
    /\ ~panicked
    /\ UNCHANGED iters
    /\ last = Idle
    /\ contains_key(tracks, name)
    /\ LET r == add_node(tracks[name].nodes, node)
       IN  /\ tracks' = SetNodes(name, r.nodes)
           /\ last' = Call("add_node", name, get_time(node), node, r.ret)
           /\ panicked' = (r.ret = RetPanic)

\* add_node, not called when it would grow the track beyond MaxNodes nodes
AddNode(name, node) ==
    /\ contains_key(tracks, name)
    /\ Len(add_node(tracks[name].nodes, node).nodes) <= MaxNodes
    /\ AddNodeCall(name, node)

UpdateNodeAt(name, time, node) ==
    /\ ~panicked
    /\ UNCHANGED iters
    /\ last = Idle
    /\ contains_key(tracks, name)
    /\ LET r == update_node_at(tracks[name].nodes, time, node)
       IN  /\ tracks' = SetNodes(name, r.nodes)
           /\ last' = Call("update_node_at", name, time, node, r.ret)
           /\ panicked' = (r.ret = RetPanic)

DelNodeAt(name, time) ==
    /\ ~panicked
    /\ UNCHANGED iters
    /\ last = Idle
    /\ contains_key(tracks, name)
    /\ LET r == del_node_at(tracks[name].nodes, time)
       IN  /\ tracks' = SetNodes(name, r.nodes)
           /\ last' = Call("del_node_at", name, time, NoNode, r.ret)
    /\ UNCHANGED panicked

\* track.get_node_at(time) on the track get_track(name) gave
GetNodeAt(name, time) ==
    /\ ~panicked
    /\ UNCHANGED iters
    /\ last = Idle
    /\ contains_key(tracks, name)
    /\ LET r == get_node_at(tracks[name].nodes, time)
       IN  last' = CallOut("get_node_at", name, time, RetNone,
                           [NoOut EXCEPT !.some = r.some, !.node = r.node])
    /\ UNCHANGED <<tracks, panicked>>

\* track.get_value_at(time) on the track get_track(name) gave
GetValueAt(name, time) ==
    /\ ~panicked
    /\ UNCHANGED iters
    /\ last = Idle
    /\ contains_key(tracks, name)
    /\ LET r == get_value_at(tracks[name].nodes, time)
       IN  /\ last' = CallOut("get_value_at", name, time, r.ret,
                              [NoOut EXCEPT !.some = (r.ret = RetNone), !.val = r.val])
           /\ panicked' = (r.ret = RetPanic)
    /\ UNCHANGED tracks

\* The orders in which a HashMap of these keys can give its entries.
Orders(keys) ==
    {o \in [1..Cardinality(keys) -> keys] :
        \A i, j \in 1..Cardinality(keys) : o[i] = o[j] => i = j}

\* timeline.save()
Save(order) ==
    /\ ~panicked
    /\ UNCHANGED iters
    /\ last = Idle
    /\ last' = CallOut("save", "", 0, "Ok",
                       [NoOut EXCEPT !.some = TRUE, !.doc = save(tracks, order)])
    /\ UNCHANGED <<tracks, panicked>>

\* Timeline::load(&text) of the text save has just given; the loaded Timeline
\* is the one the caller goes on with
Load ==
    /\ ~panicked
    /\ UNCHANGED iters
    /\ last.op = "save"
    /\ LET r == load(last.out.doc)
       IN  /\ tracks' = IF r.ok THEN r.val ELSE tracks
           /\ last' = CallOut("load", "", 0, IF r.ok THEN "Ok" ELSE ErrLoad,
                              [NoOut EXCEPT !.some = r.ok, !.doc = last.out.doc])
    /\ UNCHANGED panicked

\* A call of the ffi function fn with the pointers a and b (b is the second
\* pointer of a function that takes two), of which one at least is null.  The
\* field time of the call tells which: 1 for a, 2 for b, 3 for both.
FfiNullCall(fn, a, b) ==
    /\ ~panicked
    /\ UNCHANGED iters
    /\ last = Idle
    /\ Null \in {a, b}
    /\ fn \in Ffi1 => b = Valid
    /\ \E out \in ffi(fn, a, b) :
          /\ last' = Call("ffi", fn,
                          (IF a = Null THEN 1 ELSE 0) + (IF b = Null THEN 2 ELSE 0),
                          NoNode, out)
          /\ panicked' = (out = FfiFault)
    /\ UNCHANGED tracks

\* it = demy_tr_iter_begin(tr), tr the track of the name
IterBegin(name) ==
    /\ ~panicked
    /\ last = Idle
    /\ contains_key(tracks, name)
    /\ Len(iters) < MaxIters
    /\ iters' = Append(iters, tr_iter_begin(name))
    /\ last' = CallOut("iter_begin", name, 0, RetNone,
                       [NoOut EXCEPT !.some = TRUE, !.ptr = Len(iters) + 1])
    /\ UNCHANGED <<tracks, panicked>>

\* end = demy_tr_iter_end(tr)
IterEnd(name) ==
    /\ ~panicked
    /\ last = Idle
    /\ contains_key(tracks, name)
    /\ Len(iters) < MaxIters
    /\ iters' = Append(iters, tr_iter_end(tracks, name))
    /\ last' = CallOut("iter_end", name, 0, RetNone,
                       [NoOut EXCEPT !.some = TRUE, !.ptr = Len(iters) + 1])
    /\ UNCHANGED <<tracks, panicked>>

\* demy_tr_iter_next(&it) with it = p; out.ptr is it after the call
IterNext(p) ==
    /\ ~panicked
    /\ last = Idle
    /\ p \in DOMAIN iters
    /\ iters[p].index < Len(tracks[iters[p].track].nodes) + MaxOverrun
    /\ LET r == tr_iter_next(tracks, iters[p])
       IN  /\ iters' = [iters EXCEPT ![p] = r.iter]
           /\ last' = CallOut("iter_next", iters[p].track, p, RetNone,
                              [NoOut EXCEPT !.some = ~r.null,
                                            !.ptr = IF r.null THEN 0 ELSE p])
    /\ UNCHANGED <<tracks, panicked>>

\* demy_tr_iter_are_eq(a, b)
IterAreEq(a, b) ==
    /\ ~panicked
    /\ last = Idle
    /\ a \in DOMAIN iters
    /\ b \in DOMAIN iters
    /\ last' = CallOut("iter_are_eq", iters[a].track, a,
                       IF tr_iter_are_eq(iters[a], iters[b]) THEN "true" ELSE "false",
                       [NoOut EXCEPT !.ptr = b])
    /\ UNCHANGED <<tracks, panicked, iters>>

\* demy_tr_iter_get(p)
IterGet(p) ==
    /\ ~panicked
    /\ last = Idle
    /\ p \in DOMAIN iters
    /\ LET r == tr_iter_get(tracks, iters[p])
       IN  /\ last' = CallOut("iter_get", iters[p].track, p, r.ret,
                              [NoOut EXCEPT !.some = (r.ret = RetNone), !.node = r.node])
           /\ panicked' = (r.ret = RetPanic)
    /\ UNCHANGED <<tracks, iters>>

\* timeline.new_track(name)
NewTrack(name) ==
    /\ ~panicked
    /\ UNCHANGED iters
    /\ last = Idle
    /\ LET r == timeline_new_track(tracks, name)
       IN  /\ tracks' = r.tl
           /\ last' = CallOut("new_track", name, 0, RetNone,
                              [NoOut EXCEPT !.some = r.some])
    /\ UNCHANGED panicked

\* track.add_node(at_time, value, interp) of timeline.rs, not called when it
\* would leave more than MaxNodes nodes
TimelineAddNode(name, node) ==
    /\ ~panicked
    /\ UNCHANGED iters
    /\ last = Idle
    /\ contains_key(tracks, name)
    /\ LET r == timeline_add_node(tracks[name].nodes, get_time(node),
                                  get_value(node), get_interpolator(node))
       IN  /\ Len(r.nodes) <= MaxNodes
           /\ tracks' = SetNodes(name, r.nodes)
           /\ last' = Call("add_node", name, get_time(node), node, r.ret)
           /\ panicked' = (r.ret = RetPanic)

DestroyNodeAt(name, time) ==
    /\ ~panicked
    /\ UNCHANGED iters
    /\ last = Idle
    /\ contains_key(tracks, name)
    /\ LET r == destroy_node_at(tracks[name].nodes, time)
       IN  /\ tracks' = SetNodes(name, r.nodes)
           /\ last' = Call("destroy_node_at", name, time, NoNode, r.ret)
    /\ UNCHANGED panicked

TimelineUpdateNodeAt(name, time, node) ==
    /\ ~panicked
    /\ UNCHANGED iters
    /\ last = Idle
    /\ contains_key(tracks, name)
    /\ LET r == timeline_update_node_at(tracks[name].nodes, time, node)
       IN  /\ tracks' = SetNodes(name, r.nodes)
           /\ last' = Call("update_node_at", name, time, node, r.ret)
    /\ UNCHANGED panicked

\* track.view_value(time) in a build with or without overflow checks
ViewValue(name, time, overflow_checks) ==
    /\ ~panicked
    /\ UNCHANGED iters
    /\ last = Idle
    /\ contains_key(tracks, name)
    /\ LET r == view_value(tracks[name].nodes, time, overflow_checks)
       IN  /\ last' = CallOut("view_value", name, time, r.ret,
                              [NoOut EXCEPT !.some = (r.ret = RetNone),
                                            !.t = r.t, !.wval = r.val])
           /\ panicked' = (r.ret = RetPanic)
    /\ UNCHANGED tracks

\* track.view_next_node(&node); last.node is the argument, last.out the result
ViewNextNode(name, node) ==
    /\ ~panicked
    /\ UNCHANGED iters
    /\ last = Idle
    /\ contains_key(tracks, name)
    /\ LET r == view_next_node(tracks[name].nodes, node)
       IN  /\ last' = [Call("view_next_node", name, get_time(node), node, r.ret)
                          EXCEPT !.out = [NoOut EXCEPT !.some = r.some,
                                                       !.node = r.node]]
           /\ panicked' = (r.ret = RetPanic)
    /\ UNCHANGED tracks

\* track.view_previous_node(&node)
ViewPreviousNode(name, node) ==
    /\ ~panicked
    /\ UNCHANGED iters
    /\ last = Idle
    /\ contains_key(tracks, name)
    /\ LET r == view_previous_node(tracks[name].nodes, node)
       IN  /\ last' = [Call("view_previous_node", name, get_time(node), node,
                            r.ret)
                          EXCEPT !.out = [NoOut EXCEPT !.some = r.some,
                                                       !.node = r.node]]
           /\ panicked' = (r.ret = RetPanic)
    /\ UNCHANGED tracks

\* track.nodes() of timeline.rs: the items are &mut Node, and the caller reads
\* the item of the index or sets its fields (set_time, set_value,
\* set_interpolator) to those of node
NodesSet(name, index, node) ==
    /\ ~panicked
    /\ UNCHANGED iters
    /\ last = Idle
    /\ contains_key(tracks, name)
    /\ index < Len(tracks[name].nodes)
    /\ tracks' = SetNodes(name, VecSet(tracks[name].nodes, index, node))
    /\ last' = Call("nodes", name, index, node, RetNone)
    /\ UNCHANGED panicked

\* The call returns to the caller, which makes its next call afterwards (the
\* library is synchronous and single-threaded).  A panicked call never returns.
Return ==
    /\ ~panicked
    /\ UNCHANGED iters
    /\ last # Idle
    /\ last' = Idle
    /\ UNCHANGED <<tracks, panicked>>

Next ==
    \/ Return
    \/ \E name \in Names :
        \/ GetTrack(name)
        \/ GetTrackMut(name)
        \/ DelTrack(name)
        \/ \E node \in NodeInputs : AddNode(name, node)
        \/ \E time \in Times, node \in NodeInputs : UpdateNodeAt(name, time, node)
        \/ \E time \in Times : DelNodeAt(name, time)
        \/ \E time \in Times : GetNodeAt(name, time)
        \/ \E time \in Times : GetValueAt(name, time)

Spec == Init /\ [][Next]_vars

(* ------------- one call on a well-formed track ------------------------- *)

\* The elements of a finite set of numbers in increasing order.
RECURSIVE SortedSeq(_)
SortedSeq(S) ==
    IF S = {}
    THEN <<>>
    ELSE LET m == CHOOSE x \in S : \A y \in S : x <= y
         IN  <<m>> \o SortedSeq(S \ {m})

\* The tracks whose nodes are strictly increasing by time and start with the
\* time-0 node: what add_node calls in any order, and update_node_at calls
\* that keep the time, make of a new track.
WellFormedTracks ==
    UNION { LET ts == SortedSeq(S \cup {0})
            IN  { [i \in 1..Len(ts) |-> NodeNew(ts[i], f[ts[i]][1], f[ts[i]][2])] :
                    f \in [S \cup {0} -> Values \X InterpType] }
            : S \in SUBSET (1..MaxTime) }

InitCall ==
    /\ \E nodes \in WellFormedTracks :
          tracks = [n \in {"camera"} |-> [nodes |-> nodes, name |-> n]]
    /\ last = Idle
    /\ panicked = FALSE
    /\ iters = <<>>

NextCall ==
    \E name \in Names :
        \/ \E node \in NodeInputs : AddNodeCall(name, node)
        \/ \E time \in Times, node \in NodeInputs : UpdateNodeAt(name, time, node)
        \/ \E time \in Times : DelNodeAt(name, time)
        \/ \E time \in Times : GetNodeAt(name, time)
        \/ \E time \in Times : GetValueAt(name, time)

\* One call of a Track operation on any well-formed track.
SpecCall == InitCall /\ [][NextCall]_vars

(* ------------- one query on a strictly increasing track --------------- *)

\* The tracks whose nodes are strictly increasing by time, with or without a
\* time-0 node, of values that are finite or not.
IncreasingTracks ==
    UNION { LET ts == SortedSeq(S)
            IN  { [i \in 1..Len(ts) |-> NodeNew(ts[i], f[ts[i]][1], f[ts[i]][2])] :
                    f \in [S -> (Values \cup {NAN}) \X InterpType] }
            : S \in (SUBSET Times) \ {{}} }

InitQuery ==
    /\ \E nodes \in IncreasingTracks :
          tracks = [n \in {"camera"} |-> [nodes |-> nodes, name |-> n]]
    /\ last = Idle
    /\ panicked = FALSE
    /\ iters = <<>>

NextQuery == \E name \in Names, time \in Times : GetValueAt(name, time)

\* One call of get_value_at on any strictly increasing track.
SpecQuery == InitQuery /\ [][NextQuery]_vars

(* ------------- a timeline of several tracks ---------------------------- *)

\* add_node is not called there when it would leave more than TLMaxNodes nodes.
TLMaxNodes == 2

TLNames == {"camera.x", "camera.y"}

TLTimes == {0, 1}

TLPayloads == Payloads \cup {<<NAN, "None">>}

TLNodeInputs == {NodeNew(t, p[1], p[2]) : t \in TLTimes, p \in TLPayloads}

AddNodeTL(name, node) ==
    /\ contains_key(tracks, name)
    /\ Len(add_node(tracks[name].nodes, node).nodes) <= TLMaxNodes
    /\ AddNodeCall(name, node)

NextTL ==
    \/ Return
    \/ \E name \in TLNames :
        \/ GetTrack(name)
        \/ GetTrackMut(name)
        \/ DelTrack(name)
        \/ \E node \in TLNodeInputs : AddNodeTL(name, node)
        \/ \E time \in TLTimes, node \in TLNodeInputs : UpdateNodeAt(name, time, node)
        \/ \E time \in TLTimes : DelNodeAt(name, time)
        \/ \E time \in TLTimes : GetNodeAt(name, time)
    \/ \E order \in Orders(DOMAIN tracks) : Save(order)
    \/ Load

\* The calls on a timeline of up to two tracks, from Timeline::new().
SpecTL == Init /\ [][NextTL]_vars

\* Timeline::load(&text) of a text the host read from a file: the loaded
\* Timeline is the one the caller goes on with
LoadText(doc) ==
    /\ ~panicked
    /\ UNCHANGED iters
    /\ last = Idle
    /\ tracks = TimelineNew
    /\ LET r == load(doc)
       IN  /\ tracks' = IF r.ok THEN r.val ELSE tracks
           /\ last' = CallOut("load", "", 0, IF r.ok THEN "Ok" ELSE ErrLoad,
                              [NoOut EXCEPT !.some = r.ok, !.doc = doc])
    /\ UNCHANGED panicked

\* The node lists of up to TLMaxNodes nodes, in any order of their times.
TextNodes ==
    UNION { [1..k -> {NodeNew(t, p[1], p[2]) : t \in TLTimes, p \in Payloads}] :
            k \in 0..TLMaxNodes }

\* The texts given to load: the JSON of no track or of one track, whose name
\* field is or is not the key it is stored under, and these texts without
\* their last token.
Texts ==
    LET docs == {save(TimelineNew, <<>>)} \cup
                { save([n \in {key} |-> [nodes |-> ns, name |-> nm]], <<key>>) :
                    key \in TLNames, nm \in TLNames, ns \in TextNodes }
    IN  docs \cup {SubSeq(doc, 1, Len(doc) - 1) : doc \in docs}

\* A Timeline is loaded from a text, then its tracks are queried and added to.
NextLoad ==
    \/ Return
    \/ (tracks = TimelineNew /\ last = Idle /\ \E doc \in Texts : LoadText(doc))
    \/ \E name \in TLNames :
        \/ \E node \in TLNodeInputs : AddNodeTL(name, node)
        \/ \E time \in TLTimes : GetValueAt(name, time)

SpecLoad == Init /\ [][NextLoad]_vars

\* The tracks the cursors are tried on: a node at time 0 and at any of the
\* other times, the value and the interpolation of a node given by its time.
IterTracks ==
    { LET ts == SortedSeq(S \cup {0})
      IN  [i \in 1..Len(ts) |->
              NodeNew(ts[i], ts[i] % 2, IF ts[i] % 2 = 0 THEN "None" ELSE "Linear")]
      : S \in SUBSET (1..MaxTime) }

InitIter ==
    /\ \E nodes \in IterTracks :
          tracks = [n \in {"camera"} |-> [nodes |-> nodes, name |-> n]]
    /\ last = Idle
    /\ panicked = FALSE
    /\ iters = <<>>

\* The cursor functions on a track that is not changed meanwhile.
NextIter ==
    \/ Return
    \/ \E name \in Names :
        \/ IterBegin(name)
        \/ IterEnd(name)
    \/ \E p \in 1..MaxIters :
        \/ IterNext(p)
        \/ IterGet(p)
        \/ \E q \in 1..MaxIters : IterAreEq(p, q)

SpecIter == InitIter /\ [][NextIter]_vars

\* Everything a caller of timeline.rs can do with one track.
NextTimeline ==
    \/ Return
    \/ \E name \in Names :
        \/ NewTrack(name)
        \/ \E node \in NodeInputs : TimelineAddNode(name, node)
        \/ \E time \in Times : DestroyNodeAt(name, time)
        \/ \E time \in Times, node \in NodeInputs :
              TimelineUpdateNodeAt(name, time, node)
        \/ \E time \in Times, overflow_checks \in BOOLEAN :
              ViewValue(name, time, overflow_checks)
        \/ \E index \in 0..(MaxNodes - 1), node \in NodeInputs :
              NodesSet(name, index, node)
        \/ \E node \in NodeInputs : ViewNextNode(name, node)
        \/ \E node \in NodeInputs : ViewPreviousNode(name, node)

SpecTimeline == Init /\ [][NextTimeline]_vars

\* The ffi functions called with null pointers, on a Timeline whose tracks are
\* made and deleted.
NextFfi ==
    \/ Return
    \/ \E name \in TLNames :
        \/ GetTrackMut(name)
        \/ DelTrack(name)
    \/ \E fn \in Ffi1 \cup Ffi2, a \in Ptrs, b \in Ptrs : FfiNullCall(fn, a, b)

SpecFfi == Init /\ [][NextFfi]_vars

(* ---------------------------- typing ----------------------------------- *)

TypeOK ==
    /\ DOMAIN tracks \subseteq Names \cup TLNames
    /\ \A n \in DOMAIN tracks :
        /\ tracks[n].name = n
        /\ \A i \in 1..Len(tracks[n].nodes) :
              /\ tracks[n].nodes[i].time \in Times
              /\ tracks[n].nodes[i].value \in Values \cup {NAN}
              /\ tracks[n].nodes[i].interp \in InterpType
    /\ panicked \in BOOLEAN

(* ---------------------------- properties ------------------------------- *)

StrictlyIncreasing(nodes) ==
    \A i \in 1..(Len(nodes) - 1) : nodes[i].time < nodes[i + 1].time

HasTime(nodes, time) == \E i \in 1..Len(nodes) : nodes[i].time = time

StartsAtZero(nodes) == Len(nodes) >= 1 /\ nodes[1].time = 0

\* The last call was op, on a track that existed when it was made.
Called(op) == last.op = op /\ last.name \in DOMAIN last.pre

\* The nodes of the track the last call was made on, before and after it.
PreNodes == last.pre[last.name].nodes

PostNodes == tracks[last.name].nodes

\* The reference sorted insertion: the nodes before the new time, the new
\* node, the nodes after it.
SortedInsert(nodes, node) ==
    SelectSeq(nodes, LAMBDA x : x.time < node.time)
        \o <<node>>
        \o SelectSeq(nodes, LAMBDA x : x.time > node.time)

\* C1: in every state reachable from a new Track by add_node, update_node_at
\* and del_node_at, the nodes are strictly increasing by time.
C1_NodesStrictlyIncreasing ==
    \A n \in DOMAIN tracks : StrictlyIncreasing(tracks[n].nodes)

\* C2: on a track that is strictly increasing by time and starts with the
\* time-0 node, add_node of a time > 0 no stored node has succeeds and leaves
\* the reference sorted insertion: strictly increasing, one node more, the new
\* node in it, the old nodes unchanged and in their order.
C2_AddNodeSortedInsert ==
    ( /\ Called("add_node")
      /\ StrictlyIncreasing(PreNodes)
      /\ StartsAtZero(PreNodes)
      /\ last.node.time > 0
      /\ ~HasTime(PreNodes, last.node.time) )
    => /\ last.ret = RetNone
       /\ PostNodes = SortedInsert(PreNodes, last.node)
       /\ StrictlyIncreasing(PostNodes)
       /\ Len(PostNodes) = Len(PreNodes) + 1
       /\ \E i \in 1..Len(PostNodes) : PostNodes[i] = last.node
       /\ SelectSeq(PostNodes, LAMBDA x : x.time # last.node.time) = PreNodes

\* C2 witness: a node is added between two stored non-zero nodes.
C2_Witness ==
    /\ Called("add_node")
    /\ StrictlyIncreasing(PreNodes)
    /\ StartsAtZero(PreNodes)
    /\ Len(PreNodes) = 3
    /\ PreNodes[2].time < last.node.time
    /\ last.node.time < PreNodes[3].time
    /\ last.ret = RetNone
    /\ Len(PostNodes) = 4

\* C3: add_node of a node whose time is 0 returns an error and leaves the
\* node sequence exactly as it was, in every reachable state.
C3_AddZeroTimeRejected ==
    (Called("add_node") /\ last.node.time = 0)
    => /\ IsErr(last.ret)
       /\ tracks = last.pre
       /\ ~panicked

\* C3 witness: add_node at time 0 was refused on a track holding three nodes.
C3_Witness ==
    /\ Called("add_node")
    /\ last.node.time = 0
    /\ last.ret = ErrZeroTime
    /\ Len(PreNodes) = 3
    /\ PostNodes = PreNodes

\* C4: a Track just created by get_track / get_track_mut on a new name has
\* exactly one node, with time 0, value 0 and interpolation None.
C4_NewTrackHasZeroNode ==
    (last.op \in {"get_track", "get_track_mut"} /\ last.name \notin DOMAIN last.pre)
    => /\ last.name \in DOMAIN tracks
       /\ tracks[last.name].nodes = <<[time |-> 0, value |-> 0, interp |-> "None"]>>

\* C4 witness: get_track_mut created a track for a name the timeline did not
\* hold.
C4_Witness ==
    /\ last.op = "get_track_mut"
    /\ last.name \notin DOMAIN last.pre
    /\ last.name \in DOMAIN tracks
    /\ Len(tracks[last.name].nodes) = 1

\* C5: add_node of a time some stored node already has (at any index, index
\* 0 included) returns an error and leaves the node sequence unchanged.
C5_AddDuplicateRejected ==
    (Called("add_node") /\ HasTime(PreNodes, last.node.time))
    => /\ IsErr(last.ret)
       /\ Len(PostNodes) = Len(PreNodes)
       /\ PostNodes = PreNodes

\* C6: a Track's node sequence is never empty.
C6_NodesNeverEmpty ==
    \A n \in DOMAIN tracks : Len(tracks[n].nodes) >= 1

\* C7: update_node_at(0, new_node) with new_node.time # 0 does not remove or
\* relocate the time-0 node: the track still has a node at time 0 afterwards.
C7_ZeroNodeNotMoved ==
    ( /\ Called("update_node_at")
      /\ last.time = 0
      /\ last.node.time # 0
      /\ HasTime(PreNodes, 0) )
    => HasTime(PostNodes, 0)

\* C8: update_node_at(time, new_node) with a node stored at time and
\* new_node.time = time succeeds, keeps the node count and every node's time,
\* replaces the node at time by new_node and leaves every other node as it was.
C8_UpdateSameTimeInPlace ==
    ( /\ Called("update_node_at")
      /\ HasTime(PreNodes, last.time)
      /\ last.node.time = last.time )
    => /\ last.ret = RetNone
       /\ Len(PostNodes) = Len(PreNodes)
       /\ \A i \in 1..Len(PreNodes) : PostNodes[i].time = PreNodes[i].time
       /\ \E i \in 1..Len(PreNodes) :
             /\ PreNodes[i].time = last.time
             /\ \A j \in 1..(i - 1) : PreNodes[j].time # last.time
             /\ PostNodes[i] = last.node
             /\ \A j \in 1..Len(PreNodes) : j # i => PostNodes[j] = PreNodes[j]

\* C8 witness: the middle node of three got a new value and interpolation.
C8_Witness ==
    /\ Called("update_node_at")
    /\ Len(PreNodes) = 3
    /\ StrictlyIncreasing(PreNodes)
    /\ PreNodes[2].time = last.time
    /\ last.node.time = last.time
    /\ PreNodes[2] # last.node
    /\ PostNodes[2] = last.node
    /\ last.ret = RetNone

\* C9: update_node_at(time, new_node) of a stored node to a non-zero time no
\* stored node has keeps the node count, leaves no node at the old time, leaves
\* new_node in the track, leaves the other nodes unchanged and the sequence
\* strictly increasing by time, whichever node is updated (first non-zero,
\* middle, last) and whichever side of its neighbours the new time is.  Stated
\* for the tracks the invariants allow: strictly increasing, time-0 node first,
\* the updated node not the time-0 node.
C9_UpdateMoveResorts ==
    ( /\ Called("update_node_at")
      /\ StrictlyIncreasing(PreNodes)
      /\ StartsAtZero(PreNodes)
      /\ last.time # 0
      /\ HasTime(PreNodes, last.time)
      /\ last.node.time # 0
      /\ ~HasTime(PreNodes, last.node.time) )
    => /\ Len(PostNodes) = Len(PreNodes)
       /\ ~HasTime(PostNodes, last.time)
       /\ \E i \in 1..Len(PostNodes) : PostNodes[i] = last.node
       /\ SelectSeq(PostNodes, LAMBDA x : x.time # last.node.time)
             = SelectSeq(PreNodes, LAMBDA x : x.time # last.time)
       /\ StrictlyIncreasing(PostNodes)

\* C10: update_node_at(time, new_node) with new_node.time the time of a
\* different stored node, or 0 while the updated node is not the time-0 node,
\* returns an error and leaves the node sequence exactly as it was.  Stated for
\* the tracks the invariants allow: strictly increasing, time-0 node first.
C10_UpdateToTakenTimeFailsCleanly ==
    ( /\ Called("update_node_at")
      /\ StrictlyIncreasing(PreNodes)
      /\ StartsAtZero(PreNodes)
      /\ HasTime(PreNodes, last.time)
      /\ last.node.time # last.time
      /\ HasTime(PreNodes, last.node.time) )
    => /\ IsErr(last.ret)
       /\ PostNodes = PreNodes

\* C11: a mutation is all or nothing: when add_node, update_node_at or
\* del_node_at returns an error the node sequence is what it was, and when it
\* returns success the change is applied (the added or updated node is in the
\* track, no node is left at the deleted time).  Stated for the tracks the
\* invariants allow: strictly increasing, time-0 node first.
C11_MutationsAllOrNothing ==
    ( /\ last.op \in {"add_node", "update_node_at", "del_node_at"}
      /\ last.name \in DOMAIN last.pre
      /\ StrictlyIncreasing(PreNodes)
      /\ StartsAtZero(PreNodes) )
    => /\ IsErr(last.ret) => PostNodes = PreNodes
       /\ (last.ret = RetNone /\ last.op \in {"add_node", "update_node_at"})
             => \E i \in 1..Len(PostNodes) : PostNodes[i] = last.node
       /\ (last.ret = RetNone /\ last.op = "del_node_at")
             => ~HasTime(PostNodes, last.time)

\* C12: no call of add_node, update_node_at, del_node_at, get_node_at or
\* get_value_at aborts: every call returns a value or an error value.
C12_NoCallPanics ==
    /\ ~panicked
    /\ last.ret # RetPanic

\* The first pair of adjacent nodes with left.time <= time <= right.time is at
\* the positions i, i + 1.
FirstPairAt(nodes, time, i) ==
    /\ i \in 1..(Len(nodes) - 1)
    /\ nodes[i].time <= time /\ time <= nodes[i + 1].time
    /\ \A j \in 1..(i - 1) : ~(nodes[j].time <= time /\ time <= nodes[j + 1].time)

\* left.value * (1 - t) + right.value * t with t = (time - left.time) /
\* (right.time - left.time), over the common denominator.
LinearBlend(left, right, time) ==
    [num |-> left.value * (right.time - time) + right.value * (time - left.time),
     den |-> right.time - left.time]

ScenarioTrack ==
    <<NodeNew(0, 0, "None"), NodeNew(10, 1, "Linear"), NodeNew(20, 2, "Linear")>>

\* C13: on a strictly increasing track, get_value_at(time) with time inside
\* the first bracketing pair (left, right) evaluates the interpolation of the
\* right node: the linear blend when right is Linear, left.value when right is
\* None, whatever the mode of left; and the track (0,0,None), (10,1,Linear),
\* (20,2,Linear) gives 0.5 at time 5 and 1.5 at time 15.
C13_ValueUsesRightInterpolation ==
    /\ ( Called("get_value_at") /\ StrictlyIncreasing(PreNodes) )
       => \A i \in 1..(Len(PreNodes) - 1) :
             FirstPairAt(PreNodes, last.time, i)
             => /\ last.ret = RetNone
                /\ IF PreNodes[i + 1].interp = "Linear"
                   THEN F64Eq(last.out.val,
                              LinearBlend(PreNodes[i], PreNodes[i + 1], last.time))
                   ELSE F64Eq(last.out.val, F64(PreNodes[i].value))
    /\ F64Eq(get_value_at(ScenarioTrack, 5).val, [num |-> 1, den |-> 2])
    /\ F64Eq(get_value_at(ScenarioTrack, 15).val, [num |-> 3, den |-> 2])

\* C13 witness: half way between a None node of value 1 and a Linear node of
\* value 0 the value is 1/2.
C13_Witness ==
    /\ Called("get_value_at")
    /\ StrictlyIncreasing(PreNodes)
    /\ FirstPairAt(PreNodes, last.time, 1)
    /\ PreNodes[1].interp = "None" /\ PreNodes[1].value = 1
    /\ PreNodes[2].interp = "Linear" /\ PreNodes[2].value = 0
    /\ F64Eq(last.out.val, [num |-> 1, den |-> 2])

\* C14: on a strictly increasing track, get_value_at(time) with time after
\* the last node's time is exactly the last node's value whatever the
\* interpolation modes, and on a single-node track it is that node's value for
\* every time.
C14_ValueAfterLastNode ==
    ( /\ Called("get_value_at")
      /\ StrictlyIncreasing(PreNodes)
      /\ Len(PreNodes) >= 1
      /\ (last.time > PreNodes[Len(PreNodes)].time \/ Len(PreNodes) = 1) )
    => /\ last.ret = RetNone
       /\ last.out.val = F64(PreNodes[Len(PreNodes)].value)

\* C14 witness: a query after a last node that is Linear and whose value is
\* not the value of the node before it.
C14_Witness ==
    /\ Called("get_value_at")
    /\ StrictlyIncreasing(PreNodes)
    /\ Len(PreNodes) = 3
    /\ last.time > PreNodes[3].time
    /\ PreNodes[3].interp = "Linear"
    /\ PreNodes[3].value = 1
    /\ PreNodes[2].value = 0
    /\ last.out.val = F64(1)

\* C20: on a strictly increasing track, del_node_at(time) with a node at that
\* time succeeds, removes that node alone and leaves the others unchanged in
\* their order; with no node at that time it returns an error and leaves the
\* sequence unchanged.
C20_DelNodeRemovesExactlyOne ==
    ( Called("del_node_at") /\ StrictlyIncreasing(PreNodes) )
    => IF HasTime(PreNodes, last.time)
       THEN /\ last.ret = RetNone
            /\ Len(PostNodes) = Len(PreNodes) - 1
            /\ PostNodes = SelectSeq(PreNodes, LAMBDA x : x.time # last.time)
       ELSE /\ IsErr(last.ret)
            /\ PostNodes = PreNodes

\* C20 witness: the middle node of three was deleted.
C20_Witness ==
    /\ Called("del_node_at")
    /\ StrictlyIncreasing(PreNodes)
    /\ Len(PreNodes) = 3
    /\ PreNodes[2].time = last.time
    /\ last.ret = RetNone
    /\ PostNodes = <<PreNodes[1], PreNodes[3]>>

TrackCalls ==
    {"add_node", "update_node_at", "del_node_at", "get_node_at", "get_value_at"}

\* C15: a Timeline holds one Track per name: get_track / get_track_mut add
\* the name when it is new and nothing else, del_track removes the name and
\* nothing else, no other call changes the names, every track is stored under
\* its own name, and an access by a name the timeline holds leaves the stored
\* track with its nodes (no new one-node track takes its place).
C15_OneTrackPerName ==
    /\ \A n \in DOMAIN tracks : tracks[n].name = n
    /\ last.op \in {"get_track", "get_track_mut"}
          => /\ DOMAIN tracks = DOMAIN last.pre \cup {last.name}
             /\ Cardinality(DOMAIN tracks)
                   = Cardinality(DOMAIN last.pre)
                        + (IF last.name \in DOMAIN last.pre THEN 0 ELSE 1)
             /\ last.name \in DOMAIN last.pre => tracks = last.pre
    /\ last.op = "del_track" => DOMAIN tracks = DOMAIN last.pre \ {last.name}
    /\ last.op \in TrackCalls => DOMAIN tracks = DOMAIN last.pre

\* C15 witness: get_track by the name of a track of two nodes, in a timeline
\* of two tracks, gave that track.
C15_Witness ==
    /\ last.op = "get_track"
    /\ last.name \in DOMAIN last.pre
    /\ Cardinality(DOMAIN last.pre) = 2
    /\ Len(last.pre[last.name].nodes) = 2
    /\ tracks = last.pre

\* C16: del_track(name) returns true and removes the track of that name alone
\* (one track fewer) when the timeline holds it, and returns false and leaves
\* every track and node unchanged when it does not.
C16_DelTrack ==
    last.op = "del_track"
    => IF last.name \in DOMAIN last.pre
       THEN /\ last.ret = "true"
            /\ Cardinality(DOMAIN tracks) = Cardinality(DOMAIN last.pre) - 1
            /\ DOMAIN tracks = DOMAIN last.pre \ {last.name}
            /\ \A n \in DOMAIN tracks : tracks[n] = last.pre[n]
       ELSE /\ last.ret = "false"
            /\ tracks = last.pre

\* C16 witness: one of two tracks was deleted, the other holds two nodes.
C16_Witness ==
    /\ last.op = "del_track"
    /\ last.ret = "true"
    /\ Cardinality(DOMAIN last.pre) = 2
    /\ \E n \in DOMAIN tracks : Len(tracks[n].nodes) = 2 /\ tracks[n] = last.pre[n]

\* C19: tracks are isolated: a call that creates, accesses or deletes a track,
\* or adds, updates, deletes or reads a node of it, leaves every other track
\* in the timeline, with its nodes unchanged.
C19_TracksIsolated ==
    last.op \in {"get_track", "get_track_mut", "del_track"} \cup TrackCalls
    => \A n \in (DOMAIN last.pre \cup DOMAIN tracks) \ {last.name} :
          /\ n \in DOMAIN last.pre
          /\ n \in DOMAIN tracks
          /\ tracks[n] = last.pre[n]

\* C19 witness: a second track was created while the first held an added node,
\* which is still there.
C19_Witness ==
    /\ last.op = "get_track"
    /\ last.name \notin DOMAIN last.pre
    /\ \E n \in DOMAIN tracks \ {last.name} :
          /\ Len(tracks[n].nodes) = 2
          /\ tracks[n].nodes[2].time = 1
          /\ tracks[n].nodes[2].value = 1
          /\ get_node_at(tracks[n].nodes, 1).node = last.pre[n].nodes[2]

\* C17: save of a reachable Timeline succeeds, and load of the text succeeds
\* and gives a Timeline with the same track names and, in each track, the same
\* (time, value, interpolation) triples in the same order.  A value that is
\* not finite is written as null, which load does not read as an f64.
C17_SaveLoadRoundTrip ==
    /\ last.op = "save" => last.ret = "Ok" /\ last.out.some
    /\ last.op = "load"
          => /\ last.ret = "Ok"
             /\ DOMAIN tracks = DOMAIN last.pre
             /\ \A n \in DOMAIN tracks :
                   /\ Len(tracks[n].nodes) = Len(last.pre[n].nodes)
                   /\ \A i \in 1..Len(tracks[n].nodes) :
                         /\ tracks[n].nodes[i].time = last.pre[n].nodes[i].time
                         /\ tracks[n].nodes[i].value = last.pre[n].nodes[i].value
                         /\ tracks[n].nodes[i].interp = last.pre[n].nodes[i].interp

\* C18: a call of an ffi function with a null pointer for a handle does not
\* stop the process and changes nothing, and returns the neutral value of its
\* type: false, null, 0 (None for an interpolation) or nothing.
C18_NullHandleNeutral ==
    last.op = "ffi"
    => /\ ~panicked
       /\ last.ret \in {"false", "null", "0", "None", "void"}
       /\ tracks = last.pre

\* C21: get_node_at(time) returns a node exactly when a stored node has that
\* time, the node returned is a stored node with that time, and the track is
\* left unchanged; after a successful add_node(n), get_node_at(n.time) gives n,
\* and after a successful del_node_at(t), get_node_at(t) gives none.
C21_GetNodeAt ==
    /\ Called("get_node_at")
          => /\ last.out.some <=> HasTime(PreNodes, last.time)
             /\ last.out.some
                   => /\ last.out.node.time = last.time
                      /\ \E i \in 1..Len(PreNodes) : PreNodes[i] = last.out.node
             /\ tracks = last.pre
    /\ (Called("add_node") /\ last.ret = RetNone)
          => /\ get_node_at(PostNodes, last.node.time).some
             /\ get_node_at(PostNodes, last.node.time).node = last.node
    /\ (Called("del_node_at") /\ last.ret = RetNone)
          => ~get_node_at(PostNodes, last.time).some

\* C23: on a track that has nodes but no longer starts with the time-0 node,
\* get_value_at of a time smaller than the first node's time returns the value
\* of the first node.
C23_ValueBelowFirstNode ==
    ( /\ Called("get_value_at")
      /\ Len(PreNodes) >= 1
      /\ last.time < PreNodes[1].time )
    => /\ last.ret = RetNone
       /\ F64Eq(last.out.val, F64(PreNodes[1].value))

\* C25: update_node_at(time, new_node), when the node found for time is the
\* last of the sequence, overwrites it in place whatever new_node.time is: the
\* call succeeds, the node count is unchanged, the last node becomes new_node
\* and every other node is unchanged.
C25_UpdateLastInPlace ==
    ( /\ Called("update_node_at")
      /\ Len(PreNodes) >= 1
      /\ PreNodes[Len(PreNodes)].time = last.time
      /\ \A j \in 1..(Len(PreNodes) - 1) : PreNodes[j].time # last.time )
    => /\ last.ret = RetNone
       /\ Len(PostNodes) = Len(PreNodes)
       /\ PostNodes[Len(PostNodes)] = last.node
       /\ \A i \in 1..(Len(PreNodes) - 1) : PostNodes[i] = PreNodes[i]

\* C25 witness: the last of three nodes was given a time smaller than that of
\* the node before it, and is still the last.
C25_Witness ==
    /\ Called("update_node_at")
    /\ Len(PreNodes) = 3
    /\ PreNodes[3].time = last.time
    /\ PreNodes[1].time # last.time /\ PreNodes[2].time # last.time
    /\ last.node.time # last.time
    /\ last.node.time < PreNodes[2].time
    /\ PostNodes = <<PreNodes[1], PreNodes[2], last.node>>

\* C28 as claimed: on a strictly increasing track, get_value_at(n.time) is
\* n.value for every stored node n, whatever the interpolation of n.
C28_ValuePassesThroughKeyframes ==
    ( Called("get_value_at") /\ StrictlyIncreasing(PreNodes) )
    => \A i \in 1..Len(PreNodes) :
          PreNodes[i].time = last.time
          => /\ last.ret = RetNone
             /\ \/ last.out.val = F64(PreNodes[i].value)
                \/ F64Eq(last.out.val, F64(PreNodes[i].value))

\* The values of the nodes of the pair get_value_at blends at the time of
\* nodes[i] are finite: nodes[i] and the node before it, or, for the first
\* node, the node after it.
PairFinite(nodes, i) ==
    /\ is_finite(F64(nodes[i].value))
    /\ i >= 2 => is_finite(F64(nodes[i - 1].value))
    /\ (i = 1 /\ Len(nodes) >= 2) => is_finite(F64(nodes[2].value))

\* C28 amended: on a strictly increasing track, get_value_at(n.time) for a
\* stored node n that is not the first and whose interpolation is None is the
\* value of the node before n; for every other stored node it is n.value,
\* provided the values of the two nodes of the pair are finite.
C28_ValueAtKeyframe ==
    ( Called("get_value_at") /\ StrictlyIncreasing(PreNodes) )
    => \A i \in 1..Len(PreNodes) :
          PreNodes[i].time = last.time
          => /\ last.ret = RetNone
             /\ IF i >= 2 /\ PreNodes[i].interp = "None"
                THEN last.out.val = F64(PreNodes[i - 1].value)
                ELSE PairFinite(PreNodes, i)
                     => F64Eq(last.out.val, F64(PreNodes[i].value))

\* C28 witness: a query at the time of a None node of value 0 that stands
\* between a node of value 1 and a later node gave 1.
C28_Witness ==
    /\ Called("get_value_at")
    /\ StrictlyIncreasing(PreNodes)
    /\ Len(PreNodes) = 3
    /\ PreNodes[2].time = last.time
    /\ PreNodes[2].interp = "None" /\ PreNodes[2].value = 0
    /\ PreNodes[1].value = 1
    /\ F64Eq(last.out.val, F64(1))

\* The normalized position get_value_at computes for the pair (left, right).
NormalizedT(left, right, time) ==
    F64Div(F64Sub(F64(time), F64(get_time(left))),
           F64Sub(F64(get_time(right)), F64(get_time(left))))

\* C29: in every track state add_node, update_node_at and del_node_at can
\* reach, whenever get_value_at selects a pair (left, right) for a time,
\* right.time - left.time > 0, so that t is defined and 0 <= t <= 1.
C29_NoDivisionByZero ==
    ( Called("get_value_at") /\ Len(PreNodes) >= 1 )
    => LET between == internal_get_nodes_between(PreNodes, last.time)
           t == NormalizedT(between.left, between.right, last.time)
       IN  between.some
           => /\ get_time(between.right) - get_time(between.left) > 0
              /\ is_finite(t)
              /\ F64Eq(t, F64(0)) \/ F64Eq(t, F64(1))
                   \/ (t.num > 0 /\ t.den > 0 /\ t.num < t.den)

\* C24: every Timeline load returns successfully satisfies the invariants of
\* the data model: each track has nodes, starts with a time-0 node, is strictly
\* increasing by time and is stored under its own name; and no add_node or
\* get_value_at call on a loaded track aborts.
C24_LoadedTimelineWellFormed ==
    /\ (last.op = "load" /\ last.ret = "Ok")
          => \A n \in DOMAIN tracks :
                /\ StartsAtZero(tracks[n].nodes)
                /\ StrictlyIncreasing(tracks[n].nodes)
                /\ tracks[n].name = n
    /\ ~panicked

\* The node count of the track of a cursor.
IterLen(iter) == Len(tracks[iter.track].nodes)

\* C26: on a track of n >= 1 nodes that is not changed, for a cursor it made
\* by demy_tr_iter_begin and advanced only by demy_tr_iter_next, and the cursor
\* end made by demy_tr_iter_end: are_eq(it, end) is true exactly after n calls
\* of next (so false for the new cursor), get after k < n calls returns the
\* k-th node in time order, and each of the first n calls of next leaves the
\* handle set and the index within the node count.
C26_CursorEnumeratesOnce ==
    /\ last.op = "iter_are_eq"
          => LET a == iters[last.time]
                 b == iters[last.out.ptr]
             IN  ( /\ a.from = "begin" /\ b.from = "end" /\ b.nexts = 0
                   /\ a.track = b.track
                   /\ IterLen(a) >= 1 )
                 => (last.ret = "true" <=> a.nexts = IterLen(a))
    /\ last.op = "iter_get"
          => LET it == iters[last.time]
             IN  (it.from = "begin" /\ it.nexts < IterLen(it))
                 => /\ last.ret = RetNone
                    /\ last.out.node = tracks[it.track].nodes[it.nexts + 1]
                    /\ Cardinality({j \in 1..IterLen(it) :
                          tracks[it.track].nodes[j].time < last.out.node.time})
                       = it.nexts
    /\ last.op = "iter_next"
          => LET it == iters[last.time]
             IN  (it.from = "begin" /\ it.nexts <= IterLen(it))
                 => /\ last.out.some
                    /\ last.out.ptr = last.time
                    /\ it.index = it.nexts
                    /\ it.index <= IterLen(it)

\* C26 witness: after three calls of next on a track of three nodes the
\* cursor is equal to end.
C26_Witness ==
    /\ last.op = "iter_are_eq"
    /\ last.ret = "true"
    /\ iters[last.time].from = "begin"
    /\ iters[last.time].nexts = 3
    /\ IterLen(iters[last.time]) = 3
    /\ iters[last.out.ptr].from = "end"
    /\ iters[last.out.ptr].nexts = 0

\* C27: the index of a cursor never exceeds the node count of its track, and
\* demy_tr_iter_next on a cursor whose index is not below the node count sets
\* the handle to null.
C27_CursorIndexBounded ==
    /\ \A p \in DOMAIN iters : iters[p].index <= IterLen(iters[p])
    /\ last.op = "iter_next"
          => (iters[last.time].index > IterLen(iters[last.time])
                 => ~last.out.some)

\* C22: the use of nodes() changes no stored node: the time, the value and the
\* interpolation of every node of the track are the same after it as before.
C22_NodesReadOnly ==
    last.op = "nodes" => tracks = last.pre

\* C30: in timeline.rs, for a track of at least two nodes in strictly
\* increasing time order and a time inside a span, view_value's subtractions
\* time - left.time and right.time - left.time do not underflow, with (left,
\* right) as internal_get_nodes_between returns them, and 0 <= t <= 1.
C30_ViewValueNoUnderflow ==
    ( /\ Called("view_value")
      /\ Len(PreNodes) >= 2
      /\ StrictlyIncreasing(PreNodes)
      /\ timeline_internal_get_nodes_between(PreNodes, last.time).some )
    => LET between == timeline_internal_get_nodes_between(PreNodes, last.time)
       IN  /\ last.time >= get_time(between.left)
           /\ get_time(between.right) >= get_time(between.left)
           /\ last.ret = RetNone
           /\ ~WideIsZero(last.out.t.den)
           /\ WideLe(Wide(0, 0), last.out.t.num)
           /\ WideLe(last.out.t.num, last.out.t.den)

\* C31: in timeline.rs, on a track in strictly increasing time order,
\* view_next_node of a stored node returns Ok(Some(successor)), or Ok(None)
\* for the last node, and view_previous_node returns Ok(Some(predecessor)),
\* or Ok(None) for the first node; neither indexes outside the nodes; for a
\* node whose time is not stored both return Err.
C31_NeighbourLookupTotal ==
    ( /\ (Called("view_next_node") \/ Called("view_previous_node"))
      /\ StrictlyIncreasing(PreNodes) )
    => /\ last.ret # RetPanic
       /\ \A i \in 1..Len(PreNodes) :
             get_time(PreNodes[i]) = last.time =>
               /\ last.ret = RetOk
               /\ last.op = "view_next_node" =>
                     IF i < Len(PreNodes)
                     THEN last.out.some /\ last.out.node = PreNodes[i + 1]
                     ELSE ~last.out.some
               /\ last.op = "view_previous_node" =>
                     IF i > 1
                     THEN last.out.some /\ last.out.node = PreNodes[i - 1]
                     ELSE ~last.out.some
       /\ (\A i \in 1..Len(PreNodes) : get_time(PreNodes[i]) # last.time)
             => last.ret = ErrNotFound

====
